---- MODULE Spec2Model ----
(***************************************************************************)
(* Model of the HLK-LD6002 frame parser (src/sensoren/radar/HLK-LD6002/    *)
(* src/lib.rs): checksum, MessageType, FrameHeader, FrameData, Frame,      *)
(* Frame::body, the blocking MessageStream iterator, AsyncMessageStream    *)
(* and Data.                                                               *)
(*                                                                         *)
(* Bytes are 0..255 and u16 values 0..65535.  A u32 word is the record      *)
(* u32(hi, lo) of its two 16-bit halves, standing for hi * 2^16 + lo, as   *)
(* TLC's integers end at 2^31 - 1.  An f32 is carried as its IEEE-754      *)
(* bit pattern (f32::from_bits performs no arithmetic), wrapped in a       *)
(* record so that a float is never confused with the word it came from.    *)
(***************************************************************************)
EXTENDS Integers, Sequences, FiniteSets

(***************************************************************************)
(* Bounds of the model.                                                    *)
(***************************************************************************)
\* How many times the consumer calls MessageStream::next in one run.
MaxCalls == 3
\* How many further well-formed frames follow the first frame on the wire.
MaxTail == 1
\* How many messages the consumer passes to Data::update in one run.
MaxUpdates == 3
\* How long the byte sequences handed to checksum alone are.
MaxLen == 3
\* How many times the consumer calls AsyncMessageStream::next on one stream.
MaxAsyncCalls == 2

(***************************************************************************)
(* Bit-level helpers.                                                      *)
(***************************************************************************)
RECURSIVE xor_bits(_, _, _)
\* a ^ b on the low n bits (the `^=` of checksum, line 381).
xor_bits(a, b, n) ==
    IF n = 0 THEN 0
    ELSE (((a % 2) + (b % 2)) % 2) + (2 * xor_bits(a \div 2, b \div 2, n - 1))

\* u8 ^ u8
xor_u8(a, b) == xor_bits(a, b, 8)

\* !x on a u8 (line 383)
not_u8(x) == 255 - x

\* u16::from_be_bytes([hi, lo])
u16_from_be_bytes(hi, lo) == (hi * 256) + lo

\* the u32 word hi * 2^16 + lo
u32(hi, lo) == [hi |-> hi, lo |-> lo]

(***************************************************************************)
(* fn checksum(data: &[u8]) -> u8                                          *)
(***************************************************************************)
RECURSIVE checksum_loop(_, _, _)
\* the for loop of checksum: result ^= byte for each byte from index i on
checksum_loop(data, i, result) ==
    IF i > Len(data) THEN result
    ELSE checksum_loop(data, i + 1, xor_u8(result, data[i]))

\* A checksum that forgets the final complement.
checksum_no_complement(data) == checksum_loop(data, 1, 0)

checksum(data) == not_u8(checksum_loop(data, 1, 0))

(***************************************************************************)
(* LdError<E>                                                              *)
(***************************************************************************)
InvalidMessageType(code) == [kind |-> "InvalidMessageType", code |-> code]
InvalidDataLength(expected, got, ty) ==
    [kind |-> "InvalidDataLength", expected |-> expected, got |-> got, ty |-> ty]
InvalidChecksum(ty, got, expected) ==
    [kind |-> "InvalidChecksum", ty |-> ty, got |-> got, expected |-> expected]
InvalidFrameStart(byte) == [kind |-> "InvalidFrameStart", byte |-> byte]
Eof == [kind |-> "Eof"]
Read(e) == [kind |-> "Read", e |-> e]

\* embedded_io::ReadExactError<E>
UnexpectedEof == [kind |-> "UnexpectedEof"]
Other(e) == [kind |-> "Other", e |-> e]

\* A conversion that reports every failure of the source as the end of data.
LdError_from_all_eof(value) == Eof

\* impl From<ReadExactError<E>> for LdError<E>
LdError_from(value) ==
    IF value.kind = "UnexpectedEof" THEN Eof ELSE Read(value.e)

\* Result<T, LdError<E>>
Ok(v) == [ok |-> TRUE, val |-> v]
Err(e) == [ok |-> FALSE, err |-> e]

(***************************************************************************)
(* enum MessageType and its conversions                                    *)
(***************************************************************************)
MessageType == {"Phase", "Respiratory", "Heartbeat", "Distance"}

\* A conversion that also takes 0x0a17 for Distance.
MessageType_try_from_lax(code) ==
    CASE code = 2579 -> Ok("Phase")
      [] code = 2580 -> Ok("Respiratory")
      [] code = 2581 -> Ok("Heartbeat")
      [] code = 2582 -> Ok("Distance")
      [] code = 2583 -> Ok("Distance")
      [] OTHER -> Err(InvalidMessageType(code))

\* TryFromPrimitive for MessageType, with the map_err of its callers: an
\* unknown code fails with LdError::InvalidMessageType(e.number).
MessageType_try_from(code) ==
    CASE code = 2579 -> Ok("Phase")          \* 0x0a13
      [] code = 2580 -> Ok("Respiratory")    \* 0x0a14
      [] code = 2581 -> Ok("Heartbeat")      \* 0x0a15
      [] code = 2582 -> Ok("Distance")       \* 0x0a16
      [] OTHER -> Err(InvalidMessageType(code))

expected_length(ty) ==
    CASE ty = "Phase" -> 12
      [] ty = "Respiratory" -> 4
      [] ty = "Heartbeat" -> 4
      [] ty = "Distance" -> 8

(***************************************************************************)
(* The byte source.  `src` is the whole byte sequence the source will ever *)
(* deliver and `p` the number of bytes already taken from it.              *)
(* read_exact(buf) of n bytes either delivers the next n bytes, or, when   *)
(* fewer are left, takes what is left and fails with UnexpectedEof, or,    *)
(* when the source fails on the way, fails with Other(e); `?` converts the *)
(* failure to an LdError (lines 58-65).  An element -e of src, e > 0,      *)
(* stands for a read at that place failing with the source's error e: the  *)
(* bytes before it are taken and the failure happens once.                 *)
(***************************************************************************)
read_exact(src, p, n) ==
    LET last == IF p + n <= Len(src) THEN p + n ELSE Len(src)
        failing == {q \in (p + 1)..last : src[q] < 0}
    IN  IF failing # {}
        THEN LET q == CHOOSE q \in failing : \A r \in failing : q <= r
             IN  [ok |-> FALSE, err |-> LdError_from(Other(0 - src[q])),
                  pos |-> q]
        ELSE IF p + n <= Len(src)
        THEN [ok |-> TRUE, bytes |-> SubSeq(src, p + 1, p + n), pos |-> p + n]
        ELSE [ok |-> FALSE, err |-> LdError_from(UnexpectedEof),
              pos |-> Len(src)]

(***************************************************************************)
(* struct FrameHeader { _id, length, ty }                                  *)
(***************************************************************************)
\* A parse that verifies the header checksum, as the lines commented out in
\* the source would.
FrameHeader_parse_verifying(data) ==
    LET ty == MessageType_try_from(u16_from_be_bytes(data[5], data[6]))
    IN  IF ~ty.ok THEN ty
        ELSE IF data[7] # checksum(data)
        THEN Err(InvalidChecksum("header", checksum(data), data[7]))
        ELSE Ok([_id |-> u16_from_be_bytes(data[1], data[2]),
                 length |-> u16_from_be_bytes(data[3], data[4]),
                 ty |-> ty.val])

\* FrameHeader::parse(data: [u8; 7]); data[k] of the source is data[k+1] here.
\* The header checksum data[6] of the source is not looked at (lines 110-117
\* are commented out).
FrameHeader_parse(data) ==
    LET ty == MessageType_try_from(u16_from_be_bytes(data[5], data[6]))
    IN  IF ~ty.ok THEN ty
        ELSE Ok([_id |-> u16_from_be_bytes(data[1], data[2]),
                 length |-> u16_from_be_bytes(data[3], data[4]),
                 ty |-> ty.val])

\* FrameHeader::read: the result and the source position after it.
FrameHeader_read(src, p) ==
    LET header_bytes == read_exact(src, p, 7)
    IN  IF ~header_bytes.ok
        THEN [res |-> Err(header_bytes.err), pos |-> header_bytes.pos]
        ELSE [res |-> FrameHeader_parse(header_bytes.bytes),
              pos |-> header_bytes.pos]

(***************************************************************************)
(* struct FrameData<const N: usize> { _align, data: [u8; N], len }         *)
(***************************************************************************)
\* The capacity of Frame's data field: FrameData<16>.
N == 16

\* [0u8; N] with its first Len(bytes) places overwritten by bytes
filled_array(bytes) == [i \in 1..N |-> IF i <= Len(bytes) THEN bytes[i] ELSE 0]

\* A validation that checks the capacity only.
FrameData_validate_capacity_only(header) ==
    IF header.length > N
    THEN Err(InvalidDataLength(expected_length(header.ty), header.length,
                               header.ty))
    ELSE Ok(TRUE)

\* A validation that accepts the body length of any message type.
FrameData_validate_any_type(header) ==
    IF header.length > N \/ header.length \notin {4, 8, 12}
    THEN Err(InvalidDataLength(expected_length(header.ty), header.length,
                               header.ty))
    ELSE Ok(TRUE)

FrameData_validate(header) ==
    IF header.length > N \/ header.length # expected_length(header.ty)
    THEN Err(InvalidDataLength(expected_length(header.ty), header.length,
                               header.ty))
    ELSE Ok(TRUE)

\* A read that takes the body from the source before it validates the length.
FrameData_read_body_first(src, p, header) ==
    LET body == read_exact(src, p, header.length)
        v == FrameData_validate(header)
    IN  IF ~body.ok THEN [res |-> Err(body.err), pos |-> body.pos]
        ELSE IF ~v.ok THEN [res |-> v, pos |-> body.pos]
        ELSE [res |-> Ok([data |-> filled_array(body.bytes),
                          len |-> header.length]),
              pos |-> body.pos]

\* FrameData::read: validate first, and only then read header.length bytes.
FrameData_read(src, p, header) ==
    LET v == FrameData_validate(header)
    IN  IF ~v.ok THEN [res |-> v, pos |-> p]
        ELSE LET body == read_exact(src, p, header.length)
             IN  IF ~body.ok
                 THEN [res |-> Err(body.err), pos |-> body.pos]
                 ELSE [res |-> Ok([data |-> filled_array(body.bytes),
                                   len |-> header.length]),
                       pos |-> body.pos]

\* impl AsRef<[u8]> for FrameData: &self.data[0..self.len]
as_ref(data) == SubSeq(data.data, 1, data.len)

(***************************************************************************)
(* struct Frame { header, data } and Frame::read                           *)
(***************************************************************************)
\* A comparison that reports the two checksums in each other's place.
Frame_verify_swapped(header, data, data_checksum) ==
    LET calculated_checksum == checksum(as_ref(data))
    IN  IF data_checksum # calculated_checksum
        THEN Err(InvalidChecksum("body", data_checksum, calculated_checksum))
        ELSE Ok([header |-> header, data |-> data])

\* A comparison that is never made.
Frame_verify_skipped(header, data, data_checksum) ==
    Ok([header |-> header, data |-> data])

\* Lines 163-172 of Frame::read: recompute the checksum of the body and
\* compare it with the byte read from the wire.
Frame_verify(header, data, data_checksum) ==
    LET calculated_checksum == checksum(as_ref(data))
    IN  IF data_checksum # calculated_checksum
        THEN Err(InvalidChecksum("body", calculated_checksum, data_checksum))
        ELSE Ok([header |-> header, data |-> data])

\* Lines 157-172 of Frame::read: header, body, trailing checksum byte, each
\* `?` returning the first error.
Frame_read_after_magic(src, p) ==
    LET header == FrameHeader_read(src, p)
    IN  IF ~header.res.ok THEN header
        ELSE
          LET data == FrameData_read(src, header.pos, header.res.val)
          IN  IF ~data.res.ok THEN data
              ELSE
                LET data_checksum == read_exact(src, data.pos, 1)
                IN  IF ~data_checksum.ok
                    THEN [res |-> Err(data_checksum.err),
                          pos |-> data_checksum.pos]
                    ELSE [res |-> Frame_verify(header.res.val, data.res.val,
                                               data_checksum.bytes[1]),
                          pos |-> data_checksum.pos]

\* A read that has taken the header from the source before it looks at the
\* magic byte.
Frame_read_header_first(src, p) ==
    LET magic == read_exact(src, p, 1)
    IN  IF ~magic.ok THEN [res |-> Err(magic.err), pos |-> magic.pos]
        ELSE IF magic.bytes[1] # 1
        THEN [res |-> Err(InvalidFrameStart(magic.bytes[1])),
              pos |-> read_exact(src, magic.pos, 7).pos]
        ELSE Frame_read_after_magic(src, magic.pos)

\* Frame::read: the result and the source position it leaves.
Frame_read(src, p) ==
    LET magic == read_exact(src, p, 1)
    IN  IF ~magic.ok THEN [res |-> Err(magic.err), pos |-> magic.pos]
        ELSE IF magic.bytes[1] # 1
        THEN [res |-> Err(InvalidFrameStart(magic.bytes[1])),
              pos |-> magic.pos]
        ELSE Frame_read_after_magic(src, magic.pos)

(***************************************************************************)
(* enum MessageBody and Frame::body                                        *)
(***************************************************************************)
\* f32::from_bits(w): the float whose bit pattern is w
f32_from_bits(w) == [bits |-> w]

\* Option<f32>
Some(x) == [some |-> TRUE, val |-> x]
None == [some |-> FALSE]

Phase(a) == [variant |-> "Phase", val |-> a]
Respiratory(f) == [variant |-> "Respiratory", val |-> f]
Heartbeat(f) == [variant |-> "Heartbeat", val |-> f]
Distance(o) == [variant |-> "Distance", val |-> o]

\* A cast that assembles each word most significant byte first.
cast_slice_u32_be(bytes) ==
    [i \in 1..(Len(bytes) \div 4) |->
        u32((bytes[(4 * i) - 3] * 256) + bytes[(4 * i) - 2],
            (bytes[(4 * i) - 1] * 256) + bytes[4 * i])]

\* cast_slice::<u8, u32> on a little-endian target: consecutive groups of
\* four bytes, least significant byte first.
cast_slice_u32(bytes) ==
    [i \in 1..(Len(bytes) \div 4) |->
        u32(bytes[(4 * i) - 1] + (bytes[4 * i] * 256),
            bytes[(4 * i) - 3] + (bytes[(4 * i) - 2] * 256))]

\* A match whose Distance arm tests the flag word against 0.
Frame_body_match_flag_nonzero(ty, len, numbers) ==
    CASE ty = "Phase" /\ len = 12 ->
           Ok(Phase([i \in 1..3 |-> f32_from_bits(numbers[i])]))
      [] ty = "Respiratory" /\ len = 4 ->
           Ok(Respiratory(f32_from_bits(numbers[1])))
      [] ty = "Heartbeat" /\ len = 4 ->
           Ok(Heartbeat(f32_from_bits(numbers[1])))
      [] ty = "Distance" /\ len = 8 ->
           Ok(Distance(Some(IF numbers[1] # u32(0, 0)
                            THEN f32_from_bits(numbers[2])
                            ELSE f32_from_bits(u32(0, 0)))))
      [] ty = "Distance" /\ len = 4 -> Ok(Distance(None))
      [] OTHER -> Err(InvalidDataLength(expected_length(ty), len, ty))

\* A match that reports a Distance without measurement as None.
Frame_body_match_none_without_flag(ty, len, numbers) ==
    CASE ty = "Phase" /\ len = 12 ->
           Ok(Phase([i \in 1..3 |-> f32_from_bits(numbers[i])]))
      [] ty = "Respiratory" /\ len = 4 ->
           Ok(Respiratory(f32_from_bits(numbers[1])))
      [] ty = "Heartbeat" /\ len = 4 ->
           Ok(Heartbeat(f32_from_bits(numbers[1])))
      [] ty = "Distance" /\ len = 8 ->
           Ok(Distance(IF numbers[1] = u32(0, 1)
                       THEN Some(f32_from_bits(numbers[2]))
                       ELSE None))
      [] ty = "Distance" /\ len = 4 -> Ok(Distance(None))
      [] OTHER -> Err(InvalidDataLength(expected_length(ty), len, ty))

\* A match whose Heartbeat arm builds a Respiratory message.
Frame_body_match_heartbeat_as_respiratory(ty, len, numbers) ==
    CASE ty = "Phase" /\ len = 12 ->
           Ok(Phase([i \in 1..3 |-> f32_from_bits(numbers[i])]))
      [] ty = "Respiratory" /\ len = 4 ->
           Ok(Respiratory(f32_from_bits(numbers[1])))
      [] ty = "Heartbeat" /\ len = 4 ->
           Ok(Respiratory(f32_from_bits(numbers[1])))
      [] ty = "Distance" /\ len = 8 ->
           Ok(Distance(Some(IF numbers[1] = u32(0, 1)
                            THEN f32_from_bits(numbers[2])
                            ELSE f32_from_bits(u32(0, 0)))))
      [] ty = "Distance" /\ len = 4 -> Ok(Distance(None))
      [] OTHER -> Err(InvalidDataLength(expected_length(ty), len, ty))

\* The match of Frame::body on (self.header.ty, self.data.len()), lines
\* 268-291.  cast(numbers) and f32::from_bits reinterpret bits; the literal
\* 0.0 of line 281 is the float with bit pattern 0.
Frame_body_match(ty, len, numbers) ==
    CASE ty = "Phase" /\ len = 12 ->
           Ok(Phase([i \in 1..3 |-> f32_from_bits(numbers[i])]))
      [] ty = "Respiratory" /\ len = 4 ->
           Ok(Respiratory(f32_from_bits(numbers[1])))
      [] ty = "Heartbeat" /\ len = 4 ->
           Ok(Heartbeat(f32_from_bits(numbers[1])))
      [] ty = "Distance" /\ len = 8 ->
           Ok(Distance(Some(IF numbers[1] = u32(0, 1)
                            THEN f32_from_bits(numbers[2])
                            ELSE f32_from_bits(u32(0, 0)))))
      [] ty = "Distance" /\ len = 4 -> Ok(Distance(None))
      [] OTHER -> Err(InvalidDataLength(expected_length(ty), len, ty))

\* cast_slice panics when the byte count is not a multiple of four.
Panic == [ok |-> FALSE, panic |-> TRUE]

\* Frame::body: cast the body to words (line 266), then match.
Frame_body(frame) ==
    IF Len(as_ref(frame.data)) % 4 # 0 THEN Panic
    ELSE Frame_body_match(frame.header.ty, frame.data.len,
                          cast_slice_u32(as_ref(frame.data)))

(***************************************************************************)
(* The sensor side of the wire (spec section 6): what is written to the    *)
(* serial line.  It is written independently of the parser above: words    *)
(* are split into bytes by division, and the body checksum is computed bit *)
(* by bit as the complement of the parity of each bit column.              *)
(***************************************************************************)
\* the four bytes of a 32-bit word, least significant first
le_bytes(w) == <<w.lo % 256, w.lo \div 256, w.hi % 256, w.hi \div 256>>

\* the two bytes of a 16-bit value, most significant first
be_bytes(v) == <<v \div 256, v % 256>>

RECURSIVE words_to_bytes(_)
words_to_bytes(words) ==
    IF words = <<>> THEN <<>>
    ELSE le_bytes(Head(words)) \o words_to_bytes(Tail(words))

\* bit i of byte x
bit_of(x, i) == (x \div (2 ^ i)) % 2

RECURSIVE column_ones(_, _, _)
\* how many of the bytes from index k on have bit i set
column_ones(bytes, i, k) ==
    IF k > Len(bytes) THEN 0
    ELSE bit_of(bytes[k], i) + column_ones(bytes, i, k + 1)

RECURSIVE complement_parity(_, _)
\* the byte whose bit j, for j >= i, is 1 exactly when an even number of the
\* bytes have bit j set
complement_parity(bytes, i) ==
    IF i > 7 THEN 0
    ELSE ((1 - (column_ones(bytes, i, 1) % 2)) * (2 ^ i))
           + complement_parity(bytes, i + 1)

\* "complement of XOR of all body bytes"
wire_checksum(bytes) == complement_parity(bytes, 0)

\* bytes with the bits of mask inverted in place `at` (at = 0: unchanged)
flip(bytes, at, mask) ==
    IF at = 0 THEN bytes
    ELSE [bytes EXCEPT ![at] = xor_u8(@, mask)]

\* The body bytes and the trailing byte that chunk d puts on the wire.
sent_body(d) == flip(words_to_bytes(d.words), d.flip_at, d.flip_mask)
sent_checksum(d) == xor_u8(wire_checksum(words_to_bytes(d.words)), d.chk_mask)

\* The bytes of chunk d: magic, sequence id, declared length, type code,
\* header checksum, body, body checksum.
chunk_bytes(d) ==
    <<d.magic>> \o be_bytes(d.id) \o be_bytes(d.length) \o be_bytes(d.code)
      \o <<d.hchk>> \o sent_body(d) \o <<sent_checksum(d)>>

RECURSIVE wire_of(_)
wire_of(chunks) ==
    IF chunks = <<>> THEN <<>>
    ELSE chunk_bytes(Head(chunks)) \o wire_of(Tail(chunks))

\* The wire code of each message type.
code_of(ty) ==
    CASE ty = "Phase" -> 2579
      [] ty = "Respiratory" -> 2580
      [] ty = "Heartbeat" -> 2581
      [] ty = "Distance" -> 2582

\* A well-formed frame of the sensor: magic 1, the type's code, the byte
\* count of the payload as declared length, nothing flipped.
frame_of(ty, id, hchk, words) ==
    [magic |-> 1, id |-> id, length |-> 4 * Len(words), code |-> code_of(ty),
     hchk |-> hchk, words |-> words, flip_at |-> 0, flip_mask |-> 0,
     chk_mask |-> 0]

(***************************************************************************)
(* The inputs.                                                             *)
(***************************************************************************)
\* Bit patterns of floats.
F_zero == u32(0, 0)               \* 0.0         0x00000000
F_72_5 == u32(17041, 0)           \* 72.5        0x42910000
F_1_23 == u32(16285, 28836)       \* 1.23        0x3F9D70A4
F_3_5 == u32(16480, 0)            \* 3.5         0x40600000
F_neg_3_5 == u32(49248, 0)        \* -3.5        0xC0600000
F_nan == u32(65535, 65535)        \* a NaN       0xFFFFFFFF
F_neg_zero == u32(32768, 0)       \* -0.0        0x80000000
F_80 == u32(17056, 0)             \* 80.0        0x42A00000
F_inf == u32(32640, 0)            \* +infinity   0x7F800000

FloatBits == {F_zero, F_72_5, F_1_23, F_neg_3_5, F_nan}

\* The values of the flag word of a Distance body: 0, 1, 2 and 0x01000000
\* (1 with its bytes in the opposite order).
Flags == {u32(0, 0), u32(0, 1), u32(0, 2), u32(256, 0)}

\* Payloads per message type, as the words of the body.
Payloads ==
    [ty : {"Phase"},
     words : {<<F_1_23, F_72_5, F_3_5>>, <<F_zero, F_zero, F_zero>>,
              <<F_nan, u32(0, 1), F_neg_zero>>}]
    \cup [ty : {"Respiratory", "Heartbeat"}, words : {<<w>> : w \in FloatBits}]
    \cup [ty : {"Distance"},
          words : {<<f, v>> : f \in Flags, v \in {F_zero, F_3_5, F_1_23}}]

\* Well-formed frames, and the same with one body byte changed or with the
\* trailing checksum byte changed.
BodyCases ==
    {[frame_of(pl.ty, 0, 0, pl.words) EXCEPT
         !.flip_at = c.at, !.flip_mask = c.mask, !.chk_mask = c.chk] :
       pl \in Payloads,
       c \in [at : 0..12, mask : {1, 255}, chk : {0}]
             \cup [at : {0}, mask : {0}, chk : {0, 16}]}

Magics == {0, 1, 2}
SeqIds == {0, 258}
Lengths == {4, 6, 8, 12, 16, 17, 260}
Codes == {2579, 2580, 2581, 2582, 2583, 65535}
HeaderChecksums == {0, 165}

\* Every combination of the header fields, in front of a body of one, two
\* or three words with its correct checksum.
HeaderCases ==
    [magic : Magics, id : SeqIds, length : Lengths, code : Codes,
     hchk : HeaderChecksums,
     words : {<<F_72_5>>, <<u32(0, 1), F_3_5>>, <<F_1_23, F_72_5, F_3_5>>},
     flip_at : {0}, flip_mask : {0}, chk_mask : {0}]

\* A chunk is usable when the flipped place lies in its body.
Chunks ==
    {d \in BodyCases \cup HeaderCases :
        d.flip_at <= 4 * Len(d.words) /\ (d.flip_at = 0 <=> d.flip_mask = 0)}

\* Well-formed frames that may follow the first chunk.
TailFrames ==
    {frame_of("Heartbeat", 1, 90, <<F_72_5>>),
     frame_of("Distance", 2, 0, <<u32(0, 1), F_3_5>>)}

RECURSIVE Tails(_)
\* the sequences of at most n tail frames
Tails(n) ==
    IF n = 0 THEN {<<>>}
    ELSE Tails(n - 1)
           \cup {<<f>> \o t : f \in TailFrames, t \in Tails(n - 1)}

(***************************************************************************)
(* struct Data { respiratory, distance, heartbeat } and Data::update       *)
(***************************************************************************)
\* f > 0.0 on an f32 given by its bits: sign bit clear, not a NaN (exponent
\* all ones with a non-zero mantissa), and not zero.
f32_gt_zero(f) ==
    LET hi == f.bits.hi
        lo == f.bits.lo
        nan == ((hi % 32768) \div 128 = 255) /\ ((hi % 128 # 0) \/ (lo # 0))
    IN  (hi < 32768) /\ ~nan /\ ((hi # 0) \/ (lo # 0))

\* #[derive(Default)]: every field 0.0
Data_default ==
    [respiratory |-> f32_from_bits(u32(0, 0)),
     distance |-> f32_from_bits(u32(0, 0)),
     heartbeat |-> f32_from_bits(u32(0, 0))]

\* An update without the guards: every present value is stored.
Data_update_unguarded(self, message) ==
    CASE message.variant = "Respiratory" ->
           [self EXCEPT !.respiratory = message.val]
      [] message.variant = "Distance" /\ message.val.some ->
           [self EXCEPT !.distance = message.val.val]
      [] message.variant = "Heartbeat" ->
           [self EXCEPT !.heartbeat = message.val]
      [] OTHER -> self

\* Data::update(&mut self, message): the value of self after the call.
Data_update(self, message) ==
    CASE message.variant = "Respiratory" /\ f32_gt_zero(message.val) ->
           [self EXCEPT !.respiratory = message.val]
      [] /\ message.variant = "Distance"
         /\ message.val.some
         /\ f32_gt_zero(message.val.val) ->
           [self EXCEPT !.distance = message.val.val]
      [] message.variant = "Heartbeat" /\ f32_gt_zero(message.val) ->
           [self EXCEPT !.heartbeat = message.val]
      [] OTHER -> self

\* The messages passed to Data::update: the ones of a single value, and a
\* Phase message.
UpdateFloats == {F_zero, F_72_5, F_80, F_neg_3_5, F_nan, F_inf}
Messages ==
    {Respiratory(f32_from_bits(w)) : w \in UpdateFloats}
    \cup {Heartbeat(f32_from_bits(w)) : w \in UpdateFloats}
    \cup {Distance(Some(f32_from_bits(w))) :
             w \in {F_zero, F_3_5, F_1_23, F_neg_3_5}}
    \cup {Distance(None)}
PhaseMessage ==
    Phase(<<f32_from_bits(F_1_23), f32_from_bits(F_72_5), f32_from_bits(F_3_5)>>)

(***************************************************************************)
(* The state: a MessageStream over a byte source, and what its consumer    *)
(* has seen.                                                               *)
(*   sent     the chunks the sensor wrote (kept to state the claims)       *)
(*   wire     the bytes of the source, MessageStream.reader's content      *)
(*   pos      how many bytes the reader has taken from the source          *)
(*   out      one entry per call of next: where the call started and       *)
(*            ended, the result of self.read(), the item, and the          *)
(*            Option<Item> that next returned (ret)                        *)
(*   data     a Data value                                                 *)
(*   updates  the messages passed to data.update so far                    *)
(*   bytes    a byte sequence handed to checksum                           *)
(*   sum      <<checksum(bytes)>> once it has been computed, <<>> before   *)
(*   sources  the byte sources of the async streams: bytes and position    *)
(*   streams  the async streams: the source each reads from, the await its *)
(*            pending call is suspended at (pc), the locals of that call,  *)
(*            the calls completed so far (out) and the number of steps     *)
(*            taken so far (steps)                                         *)
(***************************************************************************)
VARIABLES sent, wire, pos, out, data, updates, bytes, sum, sources, streams

stream_vars == <<sent, wire, pos, out>>
data_vars == <<data, updates>>
checksum_vars == <<bytes, sum>>
async_vars == <<sources, streams>>

vars == <<stream_vars, data_vars, checksum_vars, async_vars>>

\* No stream is in use.
NoStream == sent = <<>> /\ wire = <<>> /\ pos = 0 /\ out = <<>>

\* Data::default(), nothing passed to it yet.
NoData == data = Data_default /\ updates = <<>>

\* checksum is not called on its own.
NoChecksum == bytes = <<>> /\ sum = <<>>

\* No async stream exists.
NoAsync == sources = <<>> /\ streams = <<>>

\* MessageStream::new(reader) over a source holding the bytes of the chunks.
Init ==
    /\ \E d \in Chunks, t \in Tails(MaxTail) : sent = <<d>> \o t
    /\ wire = wire_of(sent)
    /\ pos = 0
    /\ out = <<>>
    /\ NoData
    /\ NoChecksum
    /\ NoAsync

\* Iterator::next for MessageStream: self.read(), then frame.body(); an
\* error of the read is returned as Some(Err(e)).  Every return is Some.
\* A stream that, after a failed attempt, parses once more from where the
\* failed attempt stopped and returns the result of the second attempt.
MessageStream_next_retry ==
    /\ Len(out) < MaxCalls
    /\ LET first == Frame_read(wire, pos)
           read == IF first.res.ok THEN first ELSE Frame_read(wire, first.pos)
           item == IF read.res.ok THEN Frame_body(read.res.val) ELSE read.res
       IN  /\ pos' = read.pos
           /\ out' = Append(out, [start |-> pos, end |-> read.pos,
                                  frame |-> read.res, item |-> item,
                                  ret |-> Some(item)])
    /\ UNCHANGED <<sent, wire, data_vars, checksum_vars, async_vars>>

\* An iterator that ends when the source has nothing left.
MessageStream_next_ending ==
    /\ Len(out) < MaxCalls
    /\ LET read == Frame_read(wire, pos)
           item == IF read.res.ok THEN Frame_body(read.res.val) ELSE read.res
       IN  /\ pos' = read.pos
           /\ out' = Append(out, [start |-> pos, end |-> read.pos,
                                  frame |-> read.res, item |-> item,
                                  ret |-> IF item = Err(Eof) THEN None
                                          ELSE Some(item)])
    /\ UNCHANGED <<sent, wire, data_vars, checksum_vars, async_vars>>

MessageStream_next ==
    /\ Len(out) < MaxCalls
    /\ LET read == Frame_read(wire, pos)
           item == IF read.res.ok THEN Frame_body(read.res.val) ELSE read.res
       IN  /\ pos' = read.pos
           /\ out' = Append(out, [start |-> pos, end |-> read.pos,
                                  frame |-> read.res, item |-> item,
                                  ret |-> Some(item)])
    /\ UNCHANGED <<sent, wire, data_vars, checksum_vars, async_vars>>

Next == MessageStream_next

Spec == Init /\ [][Next]_vars

(***************************************************************************)
(* A Data value fed with messages: let mut data = Data::default(), then    *)
(* data.update(message) for one message after the other.                   *)
(***************************************************************************)
InitData == NoStream /\ NoData /\ NoChecksum /\ NoAsync

\* data.update(message)
UpdateWith(message) ==
    /\ Len(updates) < MaxUpdates
    /\ data' = Data_update(data, message)
    /\ updates' = Append(updates, message)
    /\ UNCHANGED <<stream_vars, checksum_vars, async_vars>>

UpdateData == \E message \in Messages : UpdateWith(message)

UpdatePhase == UpdateWith(PhaseMessage)

NextData == UpdateData \/ UpdatePhase

SpecData == InitData /\ [][NextData]_vars

(***************************************************************************)
(* checksum applied to a byte sequence of its own.                         *)
(***************************************************************************)
\* The byte values of the sequences.
ChecksumBytes == {0, 1, 85, 145, 170, 255}

RECURSIVE ByteSeqs(_)
\* the sequences of at most n of these bytes
ByteSeqs(n) ==
    IF n = 0 THEN {<<>>}
    ELSE ByteSeqs(n - 1)
           \cup {Append(b, x) : b \in ByteSeqs(n - 1), x \in ChecksumBytes}

InitChecksum ==
    /\ NoStream
    /\ NoData
    /\ NoAsync
    /\ bytes \in ByteSeqs(MaxLen)
    /\ sum = <<>>

\* let sum = checksum(&bytes)
CallChecksum ==
    /\ sum = <<>>
    /\ sum' = <<checksum(bytes)>>
    /\ UNCHANGED <<bytes, stream_vars, data_vars, async_vars>>

NextChecksum == CallChecksum

SpecChecksum == InitChecksum /\ [][NextChecksum]_vars

(***************************************************************************)
(* MessageStream on a source that ends or fails in the middle of a frame.  *)
(***************************************************************************)
\* The errors the source can fail with.
SourceErrors == {5, 110}

\* The well-formed frames the sensor sends in these runs.
CutFrames ==
    {<<f>> : f \in {frame_of("Phase", 3, 0, <<F_1_23, F_72_5, F_3_5>>),
                    frame_of("Respiratory", 4, 165, <<F_1_23>>),
                    frame_of("Heartbeat", 258, 90, <<F_72_5>>),
                    frame_of("Distance", 2, 0, <<u32(0, 1), F_3_5>>)}}
    \cup {<<frame_of("Heartbeat", 1, 90, <<F_72_5>>), f>> :
            f \in {frame_of("Distance", 2, 0, <<u32(0, 0), F_3_5>>),
                   frame_of("Respiratory", 4, 0, <<F_80>>)}}

\* The first n bytes of bs.
cut_after(bs, n) == SubSeq(bs, 1, n)

\* bs with the source failing with e once n bytes have been delivered.
failing_after(bs, n, e) ==
    SubSeq(bs, 1, n) \o <<0 - e>> \o SubSeq(bs, n + 1, Len(bs))

InitCut ==
    /\ sent \in CutFrames
    /\ \E n \in 0..(Len(wire_of(sent)) - 1) :
         \/ wire = cut_after(wire_of(sent), n)
         \/ \E e \in SourceErrors : wire = failing_after(wire_of(sent), n, e)
    /\ pos = 0
    /\ out = <<>>
    /\ NoData
    /\ NoChecksum
    /\ NoAsync

NextCut == MessageStream_next

SpecCut == InitCut /\ [][NextCut]_vars

(***************************************************************************)
(* AsyncMessageStream: Frame::read_async, one step per `.await` on         *)
(* read_exact.  Between two awaits the code runs without suspending, so    *)
(* a step is the completion of one read together with everything up to     *)
(* the next await or the return.                                           *)
(***************************************************************************)
\* The streams scheduled together.
Streams == {1, 2}

\* Every stream reading from the source of stream 1.
reader_shared(t) == 1

\* AsyncMessageStream::new(reader): stream t owns source t.
reader_of(t) == t

\* What a step leaves: the call has returned res, or it is suspended at the
\* await named pc with the locals header and data.
Ready(res, p) == [ready |-> TRUE, res |-> res, pos |-> p]
Pending(pc, header, frame_data, p) ==
    [ready |-> FALSE, pc |-> pc, header |-> header, data |-> frame_data,
     pos |-> p]

\* Lines 176-180: the magic byte.
Frame_read_async_magic(src, p) ==
    LET magic == read_exact(src, p, 1)
    IN  IF ~magic.ok THEN Ready(Err(magic.err), magic.pos)
        ELSE IF magic.bytes[1] # 1
        THEN Ready(Err(InvalidFrameStart(magic.bytes[1])), magic.pos)
        ELSE Pending("header", <<>>, <<>>, magic.pos)

\* Line 182, FrameHeader::read_async (133-138), and line 242 of
\* FrameData::read_async: the validation runs before the body's await.
Frame_read_async_header(src, p) ==
    LET header_bytes == read_exact(src, p, 7)
    IN  IF ~header_bytes.ok
        THEN Ready(Err(header_bytes.err), header_bytes.pos)
        ELSE LET header == FrameHeader_parse(header_bytes.bytes)
             IN  IF ~header.ok THEN Ready(header, header_bytes.pos)
                 ELSE LET v == FrameData_validate(header.val)
                      IN  IF ~v.ok THEN Ready(v, header_bytes.pos)
                          ELSE Pending("body", <<header.val>>, <<>>,
                                       header_bytes.pos)

\* Lines 244-253 of FrameData::read_async: the body.
FrameData_read_async(src, p, header) ==
    LET body == read_exact(src, p, header.length)
    IN  IF ~body.ok THEN Ready(Err(body.err), body.pos)
        ELSE Pending("checksum", <<header>>,
                     <<[data |-> filled_array(body.bytes),
                        len |-> header.length]>>, body.pos)

\* A trailing step that reports the two checksums in each other's place.
Frame_read_async_checksum_swapped(src, p, header, frame_data) ==
    LET data_checksum == read_exact(src, p, 1)
    IN  IF ~data_checksum.ok
        THEN Ready(Err(data_checksum.err), data_checksum.pos)
        ELSE Ready(Frame_verify_swapped(header, frame_data,
                                        data_checksum.bytes[1]),
                   data_checksum.pos)

\* Lines 184-197: the trailing checksum byte and the comparison.
Frame_read_async_checksum(src, p, header, frame_data) ==
    LET data_checksum == read_exact(src, p, 1)
    IN  IF ~data_checksum.ok
        THEN Ready(Err(data_checksum.err), data_checksum.pos)
        ELSE Ready(Frame_verify(header, frame_data, data_checksum.bytes[1]),
                   data_checksum.pos)

\* AsyncMessageStream::new
AsyncMessageStream_new(reader) ==
    [reader |-> reader, pc |-> "idle", start |-> 0, header |-> <<>>,
     data |-> <<>>, out |-> <<>>, steps |-> 0]

\* stream.next() is called: the future starts at the first await.
AsyncMessageStream_call(st, source) ==
    [stream |-> [st EXCEPT !.pc = "magic", !.start = source.pos,
                           !.steps = @ + 1],
     source |-> source]

\* The pending call of st is resumed at its await: Frame::read_async up to
\* the next await, or to its return and then AsyncMessageStream::next
\* (lines 347-349: `?` on the frame, then frame.body()).
AsyncMessageStream_poll(st, source) ==
    LET src == source.bytes
        p == source.pos
        r == CASE st.pc = "magic" -> Frame_read_async_magic(src, p)
               [] st.pc = "header" -> Frame_read_async_header(src, p)
               [] st.pc = "body" ->
                    FrameData_read_async(src, p, st.header[1])
               [] st.pc = "checksum" ->
                    Frame_read_async_checksum(src, p, st.header[1],
                                              st.data[1])
    IN  [stream |->
           IF r.ready
           THEN [st EXCEPT
                   !.pc = "idle", !.header = <<>>, !.data = <<>>,
                   !.steps = @ + 1,
                   !.out = Append(@, [start |-> st.start, end |-> r.pos,
                                      frame |-> r.res,
                                      item |-> IF r.res.ok
                                               THEN Frame_body(r.res.val)
                                               ELSE r.res])]
           ELSE [st EXCEPT !.pc = r.pc, !.header = r.header,
                           !.data = r.data, !.steps = @ + 1],
         source |-> [source EXCEPT !.pos = r.pos]]

\* The sources given to the async streams: nothing, well-formed frames of
\* every type alone and back to back, a frame with a changed body byte or a
\* changed checksum byte before a good one, a wrong magic byte, an unknown
\* type code, a wrong declared length, frames cut short, and a source that
\* fails in the middle of a frame.
AsyncFrames ==
    [H |-> frame_of("Heartbeat", 1, 90, <<F_72_5>>),
     D |-> frame_of("Distance", 2, 0, <<u32(0, 1), F_3_5>>),
     Z |-> frame_of("Distance", 258, 165, <<u32(0, 0), F_3_5>>),
     P |-> frame_of("Phase", 3, 0, <<F_1_23, F_72_5, F_3_5>>),
     R |-> frame_of("Respiratory", 4, 0, <<F_1_23>>)]

AsyncSources ==
    LET f == AsyncFrames
    IN  {<<>>,
         wire_of(<<f.H>>),
         wire_of(<<f.H, f.D>>),
         wire_of(<<f.P, f.R>>),
         wire_of(<<f.Z>>),
         wire_of(<<[f.H EXCEPT !.flip_at = 2, !.flip_mask = 16], f.D>>),
         wire_of(<<[f.R EXCEPT !.chk_mask = 1], f.H>>),
         wire_of(<<[f.H EXCEPT !.magic = 2]>>),
         wire_of(<<[f.H EXCEPT !.code = 2583]>>),
         wire_of(<<[f.H EXCEPT !.length = 8], f.H>>),
         SubSeq(wire_of(<<f.D>>), 1, 12),
         SubSeq(wire_of(<<f.H>>), 1, 4),
         SubSeq(wire_of(<<f.H, f.H>>), 1, 25),
         failing_after(wire_of(<<f.R, f.D>>), 20, 5)}

InitAsync ==
    /\ NoStream
    /\ NoData
    /\ NoChecksum
    /\ \E b \in [Streams -> AsyncSources] :
         sources = [t \in Streams |-> [bytes |-> b[t], pos |-> 0]]
    /\ streams = [t \in Streams |-> AsyncMessageStream_new(reader_of(t))]

\* The consumer of stream t calls stream.next().
AsyncMessageStream_next(t) ==
    /\ streams[t].pc = "idle"
    /\ Len(streams[t].out) < MaxAsyncCalls
    /\ LET r == AsyncMessageStream_call(streams[t], sources[streams[t].reader])
       IN  streams' = [streams EXCEPT ![t] = r.stream]
    /\ UNCHANGED <<sources, stream_vars, data_vars, checksum_vars>>

\* The scheduler resumes stream t, suspended at the await named pc.
Resume(t, pc) ==
    /\ streams[t].pc = pc
    /\ LET rd == streams[t].reader
           r == AsyncMessageStream_poll(streams[t], sources[rd])
       IN  /\ streams' = [streams EXCEPT ![t] = r.stream]
           /\ sources' = [sources EXCEPT ![rd] = r.source]
    /\ UNCHANGED <<stream_vars, data_vars, checksum_vars>>

AsyncCall == \E t \in Streams : AsyncMessageStream_next(t)
AsyncMagic == \E t \in Streams : Resume(t, "magic")
AsyncHeader == \E t \in Streams : Resume(t, "header")
AsyncBody == \E t \in Streams : Resume(t, "body")
AsyncChecksum == \E t \in Streams : Resume(t, "checksum")

NextAsync ==
    AsyncCall \/ AsyncMagic \/ AsyncHeader \/ AsyncBody \/ AsyncChecksum

SpecAsync == InitAsync /\ [][NextAsync]_vars

(***************************************************************************)
(* Vocabulary of the claims.                                               *)
(***************************************************************************)
KnownCodes == {code_of(ty) : ty \in MessageType}

\* the message type with the given wire code
type_of(code) == CHOOSE ty \in MessageType : code_of(ty) = code

\* the bytes call number i took from the source
consumed(i) == SubSeq(wire, out[i].start + 1, out[i].end)

\* call number i returned a decoded message
ReturnedMessage(i) == out[i].item.ok

\* call number i returned an LdError
ReturnedError(i) == ~out[i].item.ok /\ "err" \in DOMAIN out[i].item

\* the declared length and the type code in a frame's bytes
declared_length(bs) == (bs[4] * 256) + bs[5]
type_code(bs) == (bs[6] * 256) + bs[7]

\* bs is a valid frame: magic, known type, declared length within capacity
\* and expected for the type, body of that length, trailing checksum.
ValidFrame(bs) ==
    /\ Len(bs) >= 9
    /\ bs[1] = 1
    /\ type_code(bs) \in KnownCodes
    /\ declared_length(bs) <= 16
    /\ declared_length(bs) = expected_length(type_of(type_code(bs)))
    /\ Len(bs) = 9 + declared_length(bs)
    /\ bs[Len(bs)] = checksum(SubSeq(bs, 9, 8 + declared_length(bs)))

\* d, as the sensor wrote it, is a well-formed frame: magic 1, a known type
\* with the length expected for it, a body of that many bytes, and the
\* checksum of the body; the sequence id and the header checksum are free.
WellFormed(d) ==
    /\ d.magic = 1
    /\ d.code \in KnownCodes
    /\ d.length = expected_length(type_of(d.code))
    /\ d.length = 4 * Len(d.words)
    /\ d.flip_at = 0
    /\ d.chk_mask = 0

\* d is a well-formed frame in which one body byte was changed afterwards
OneBodyByteChanged(d) ==
    /\ WellFormed([d EXCEPT !.flip_at = 0, !.flip_mask = 0])
    /\ d.flip_at \in 1..d.length
    /\ sent_body(d)[d.flip_at] # words_to_bytes(d.words)[d.flip_at]

\* the first call has been made
FirstCallDone == Len(out) >= 1

(***************************************************************************)
(* C1.  A call of next returns a decoded message only if the bytes it      *)
(* consumed form a valid frame (first byte 1, known type code, declared    *)
(* length at most 16 and equal to the type's expected length, trailing     *)
(* byte equal to the checksum of the body).  Otherwise no Frame is         *)
(* constructed and the call returns an error.                              *)
(***************************************************************************)
C1_OnlyValidFramesDecode ==
    \A i \in DOMAIN out :
        /\ ReturnedMessage(i) => ValidFrame(consumed(i))
        /\ ~ValidFrame(consumed(i)) => ~out[i].frame.ok /\ ReturnedError(i)

\* One call rejected a frame for its checksum and another returned a message.
C1_Witness ==
    \E i, j \in DOMAIN out :
        /\ ReturnedMessage(i) /\ ValidFrame(consumed(i))
        /\ ReturnedError(j) /\ out[j].item.err.kind = "InvalidChecksum"

(***************************************************************************)
(* C2.  A well-formed frame with exactly one body byte changed and the     *)
(* trailing checksum byte left as it was reads as InvalidChecksum, `got`   *)
(* being the checksum recomputed over the received body and `expected`     *)
(* the trailing byte on the wire; no message is returned.                  *)
(***************************************************************************)
C2_ChangedBodyByteIsInvalidChecksum ==
    (FirstCallDone /\ OneBodyByteChanged(sent[1])) =>
        /\ out[1].item = Err(InvalidChecksum("body", checksum(sent_body(sent[1])),
                                             sent_checksum(sent[1])))
        /\ ~ReturnedMessage(1)

\* A Phase frame whose last body byte was changed has been read.
C2_Witness ==
    /\ FirstCallDone
    /\ OneBodyByteChanged(sent[1])
    /\ sent[1].code = 2579 /\ sent[1].flip_at = 12
    /\ out[1].item.err.kind = "InvalidChecksum"
    /\ out[1].item.err.got # out[1].item.err.expected

(***************************************************************************)
(* C3.  After magic byte 1 and a header with a known type, a declared      *)
(* length above 16 or different from the type's expected length reads as   *)
(* InvalidDataLength{expected, got, type}, and the call has consumed the   *)
(* magic byte and the 7 header bytes only.                                 *)
(***************************************************************************)
C3_BadLengthBeforeBody ==
    \A i \in DOMAIN out :
        LET p == out[i].start
            bs == SubSeq(wire, p + 1, p + 8)
        IN  (/\ p + 8 <= Len(wire)
             /\ bs[1] = 1
             /\ type_code(bs) \in KnownCodes
             /\ \/ declared_length(bs) > 16
                \/ declared_length(bs) # expected_length(type_of(type_code(bs))))
            => /\ out[i].item =
                    Err(InvalidDataLength(expected_length(type_of(type_code(bs))),
                                          declared_length(bs),
                                          type_of(type_code(bs))))
               /\ out[i].end = p + 8

\* A Respiratory header declaring length 6 has been read.
C3_Witness ==
    /\ FirstCallDone
    /\ sent[1].magic = 1 /\ sent[1].code = 2580 /\ sent[1].length = 6
    /\ out[1].item = Err(InvalidDataLength(4, 6, "Respiratory"))
    /\ out[1].end = 8

(***************************************************************************)
(* C4.  When the first byte a call reads is b # 1, the call returns        *)
(* InvalidFrameStart(b) and has consumed exactly that one byte.            *)
(***************************************************************************)
C4_BadMagicConsumesOneByte ==
    \A i \in DOMAIN out :
        LET p == out[i].start
        IN  (p < Len(wire) /\ wire[p + 1] # 1)
            => /\ out[i].item = Err(InvalidFrameStart(wire[p + 1]))
               /\ out[i].end = p + 1

\* A stream starting with byte 0 has been read once.
C4_Witness ==
    /\ Len(out) = 1
    /\ wire[1] = 0
    /\ out[1].item = Err(InvalidFrameStart(0))
    /\ pos = 1

(***************************************************************************)
(* C5.  After magic byte 1, a type code other than 0x0a13..0x0a16 reads as *)
(* InvalidMessageType carrying exactly that code, whatever the sequence    *)
(* id, the declared length and the header checksum are.                    *)
(***************************************************************************)
C5_UnknownTypeCode ==
    \A i \in DOMAIN out :
        LET p == out[i].start
            bs == SubSeq(wire, p + 1, p + 8)
        IN  (/\ p + 8 <= Len(wire)
             /\ bs[1] = 1
             /\ type_code(bs) \notin {2579, 2580, 2581, 2582})
            => out[i].item = Err(InvalidMessageType(type_code(bs)))

\* Type code 0xFFFF under a non-zero sequence id, a length no type has and a
\* non-zero header checksum has been read.
C5_Witness ==
    /\ FirstCallDone
    /\ sent[1].magic = 1 /\ sent[1].code = 65535
    /\ sent[1].id = 258 /\ sent[1].length = 17 /\ sent[1].hchk = 165
    /\ out[1].item = Err(InvalidMessageType(65535))

\* The message a payload of the given type and words stands for: every word
\* taken as the bit pattern of a float, the Distance value behind flag 1.
message_of(ty, words) ==
    CASE ty = "Phase" ->
           Phase(<<f32_from_bits(words[1]), f32_from_bits(words[2]),
                   f32_from_bits(words[3])>>)
      [] ty = "Respiratory" -> Respiratory(f32_from_bits(words[1]))
      [] ty = "Heartbeat" -> Heartbeat(f32_from_bits(words[1]))
      [] ty = "Distance" -> Distance(Some(f32_from_bits(words[2])))

\* d is a well-formed Distance frame with a body of two words
DistanceFrame(d) == WellFormed(d) /\ d.code = 2582 /\ d.length = 8

(***************************************************************************)
(* C6.  Round trip: a well-formed frame of each type (Phase with three     *)
(* words, Respiratory and Heartbeat with one, Distance with flag word 1    *)
(* and a value word) is read as a MessageBody of the same variant whose    *)
(* payload words are bit for bit the encoded ones.                         *)
(***************************************************************************)
C6_RoundTrip ==
    (/\ FirstCallDone
     /\ WellFormed(sent[1])
     /\ (sent[1].code = 2582 => sent[1].words[1] = u32(0, 1)))
    => out[1].item = Ok(message_of(type_of(sent[1].code), sent[1].words))

\* A Phase frame of three different words arrived as those three floats.
C6_Witness ==
    /\ FirstCallDone
    /\ WellFormed(sent[1])
    /\ sent[1].words = <<F_1_23, F_72_5, F_3_5>>
    /\ out[1].item.ok
    /\ out[1].item.val.variant = "Phase"
    /\ out[1].item.val.val[1].bits = F_1_23
    /\ out[1].item.val.val[3].bits = F_3_5

(***************************************************************************)
(* C7.  End to end: a source holding exactly the bytes of one well-formed  *)
(* Heartbeat frame (any sequence id, any header checksum byte) gives       *)
(* Heartbeat(v), v the value in the body, on the first call; no call       *)
(* returns another message, and no call returns an error while bytes of    *)
(* the frame are still unread.                                             *)
(***************************************************************************)
C7_OneHeartbeat ==
    (/\ FirstCallDone
     /\ Len(sent) = 1
     /\ WellFormed(sent[1])
     /\ sent[1].code = 2581)
    => /\ out[1].item = Ok(Heartbeat(f32_from_bits(sent[1].words[1])))
       /\ out[1].end = Len(wire)
       /\ \A i \in DOMAIN out : i > 1 => ~ReturnedMessage(i)
       /\ \A i \in DOMAIN out : ~ReturnedMessage(i) => out[i].start = Len(wire)

\* The 13 bytes of a Heartbeat frame for 72.5, with a sequence id and a
\* header checksum byte that are not zero, have been read and the stream has
\* been asked again.
C7_Witness ==
    /\ Len(out) >= 2
    /\ Len(sent) = 1
    /\ WellFormed(sent[1])
    /\ sent[1].code = 2581 /\ sent[1].id = 258 /\ sent[1].hchk = 165
    /\ Len(wire) = 13
    /\ out[1].item = Ok(Heartbeat(f32_from_bits(F_72_5)))

(***************************************************************************)
(* C8, as claimed.  A valid Distance frame whose 8-byte body is all zeros  *)
(* decodes to Distance(None).                                              *)
(***************************************************************************)
C8_ZeroBodyIsNone ==
    (/\ FirstCallDone
     /\ DistanceFrame(sent[1])
     /\ sent[1].words = <<u32(0, 0), u32(0, 0)>>)
    => out[1].item = Ok(Distance(None))

(***************************************************************************)
(* C8, amended.  A valid Distance frame whose 8-byte body is all zeros     *)
(* decodes to Distance(Some(0.0)): a Distance message carrying the value   *)
(* 0.0.                                                                    *)
(***************************************************************************)
C8_ZeroBodyIsSomeZero ==
    (/\ FirstCallDone
     /\ DistanceFrame(sent[1])
     /\ sent[1].words = <<u32(0, 0), u32(0, 0)>>)
    => out[1].item = Ok(Distance(Some(f32_from_bits(u32(0, 0)))))

\* The all-zero Distance frame has been read and a message came back.
C8_Witness ==
    /\ FirstCallDone
    /\ DistanceFrame(sent[1])
    /\ sent_body(sent[1]) = <<0, 0, 0, 0, 0, 0, 0, 0>>
    /\ ReturnedMessage(1)
    /\ out[1].item.val.variant = "Distance"

(***************************************************************************)
(* C9.  For a valid Distance frame of body length 8 the decoder returns    *)
(* Distance(Some(second word as float)) when the first word is 1, and      *)
(* Distance(Some(0.0)) for every other first word, whatever the second     *)
(* word is.                                                                *)
(***************************************************************************)
C9_DistanceFlag ==
    (FirstCallDone /\ DistanceFrame(sent[1])) =>
        out[1].item =
            IF sent[1].words[1] = u32(0, 1)
            THEN Ok(Distance(Some(f32_from_bits(sent[1].words[2]))))
            ELSE Ok(Distance(Some(f32_from_bits(u32(0, 0)))))

\* A Distance frame with flag word 2 in front of the pattern of 3.5 has been
\* read as Distance(Some(0.0)).
C9_Witness ==
    /\ FirstCallDone
    /\ DistanceFrame(sent[1])
    /\ sent[1].words = <<u32(0, 2), F_3_5>>
    /\ out[1].item = Ok(Distance(Some(f32_from_bits(u32(0, 0)))))

(***************************************************************************)
(* C10.  Distance has two legal body lengths, 8 and 4: a frame with magic  *)
(* 1, type code 0x0a16, declared length 4, 4 body bytes and a correct body *)
(* checksum is accepted and decodes to Distance(None).                     *)
(***************************************************************************)
C10_ShortDistanceAccepted ==
    (/\ FirstCallDone
     /\ sent[1].magic = 1
     /\ sent[1].code = 2582
     /\ sent[1].length = 4
     /\ Len(sent_body(sent[1])) = 4
     /\ sent_checksum(sent[1]) = wire_checksum(sent_body(sent[1])))
    => out[1].item = Ok(Distance(None))

(***************************************************************************)
(* C11.  Aggregator latch: from the default (all fields 0.0), after any    *)
(* sequence of Data::update calls each of respiratory, heartbeat and       *)
(* distance is the value of the most recent message of its kind whose      *)
(* value was present and strictly positive, or 0.0 if there was none; a    *)
(* zero, negative or absent value, or a Phase message, changes nothing.    *)
(***************************************************************************)
\* The floats of the inputs that are strictly positive: 72.5, 80.0, 3.5,
\* 1.23 and +infinity.  0.0, -3.5 and the NaN are not.
StrictlyPositive ==
    {f32_from_bits(w) : w \in {F_72_5, F_80, F_3_5, F_1_23, F_inf}}

\* the value message m carries for the field of the given kind, if it is of
\* that kind, present and strictly positive
Carries(m, kind) ==
    /\ m.variant = kind
    /\ IF kind = "Distance"
       THEN m.val.some /\ m.val.val \in StrictlyPositive
       ELSE m.val \in StrictlyPositive

carried(m, kind) == IF kind = "Distance" THEN m.val.val ELSE m.val

RECURSIVE latest(_, _)
\* the value of the most recent message of ms that carries one for kind
latest(ms, kind) ==
    IF ms = <<>> THEN f32_from_bits(u32(0, 0))
    ELSE IF Carries(ms[Len(ms)], kind) THEN carried(ms[Len(ms)], kind)
    ELSE latest(SubSeq(ms, 1, Len(ms) - 1), kind)

C11_Latch ==
    /\ data.respiratory = latest(updates, "Respiratory")
    /\ data.heartbeat = latest(updates, "Heartbeat")
    /\ data.distance = latest(updates, "Distance")

\* Heartbeat(72.5), Heartbeat(0.0), Heartbeat(80.0) have been passed and the
\* heartbeat is 80.0, the other fields still 0.0.
C11_Witness ==
    /\ updates = <<Heartbeat(f32_from_bits(F_72_5)),
                   Heartbeat(f32_from_bits(F_zero)),
                   Heartbeat(f32_from_bits(F_80))>>
    /\ data.heartbeat = f32_from_bits(F_80)
    /\ data.respiratory = f32_from_bits(F_zero)
    /\ data.distance = f32_from_bits(F_zero)

(***************************************************************************)
(* C12.  The sequence id (header bytes 0..2) and the header checksum       *)
(* (header byte 6) are read but never influence the outcome: a byte stream *)
(* that differs from the one read only in those bytes of the frame gives   *)
(* the same result (same message or same error) and the same number of     *)
(* consumed bytes.                                                         *)
(***************************************************************************)
\* what a call of next starting at place p of source src returns and how
\* many bytes it takes
outcome(src, p) ==
    LET read == Frame_read(src, p)
    IN  [item |-> IF read.res.ok THEN Frame_body(read.res.val) ELSE read.res,
         taken |-> read.pos - p]

\* the values put in place of the three bytes
OtherBytes == {1, 255}

\* src with the two bytes of the sequence id and the header checksum byte of
\* the frame starting at place p replaced
with_inert_bytes(src, p, a, b, c) ==
    [src EXCEPT ![p + 2] = a, ![p + 3] = b, ![p + 8] = c]

C12_InertHeaderBytes ==
    (Len(out) >= 1 /\ out[Len(out)].start + 8 <= Len(wire)) =>
        LET e == out[Len(out)]
        IN  \A a, b, c \in OtherBytes :
                outcome(with_inert_bytes(wire, e.start, a, b, c), e.start)
                  = [item |-> e.item, taken |-> e.end - e.start]

\* A Phase frame sent with sequence id 0 and header checksum 0 was decoded,
\* and so is the frame with these three bytes set to 255.
C12_Witness ==
    /\ Len(out) = 1
    /\ WellFormed(sent[1])
    /\ sent[1].code = 2579 /\ sent[1].id = 0 /\ sent[1].hchk = 0
    /\ ReturnedMessage(1)
    /\ with_inert_bytes(wire, 0, 255, 255, 255) # wire
    /\ outcome(with_inert_bytes(wire, 0, 255, 255, 255), 0).item = out[1].item

(***************************************************************************)
(* C13.  For every byte sequence b, checksum(b) is the 8-bit complement of *)
(* the XOR of all bytes of b; checksum of the empty sequence is 0xFF.      *)
(***************************************************************************)
C13_ChecksumIsComplementOfXor ==
    sum # <<>> =>
        /\ sum[1] = wire_checksum(bytes)
        /\ bytes = <<>> => sum[1] = 255

\* checksum has been computed for the empty sequence, and (in another state)
\* for three bytes whose XOR is not zero.
C13_WitnessEmpty == bytes = <<>> /\ sum = <<255>>
C13_Witness == bytes = <<1, 145, 85>> /\ sum = <<255 - 197>>

\* The offset in the source of the first byte of the k-th chunk sent.
chunk_offset(k) == Len(wire_of(SubSeq(sent, 1, k - 1)))

\* The message a well-formed frame stands for: message_of, with the value of
\* a Distance frame whose flag word is not 1 read as 0.0.
decoded(d) ==
    IF d.code = 2582 /\ d.words[1] # u32(0, 1)
    THEN Distance(Some(f32_from_bits(F_zero)))
    ELSE message_of(type_of(d.code), d.words)

(***************************************************************************)
(* C14.  No retry and no resynchronization.  The first call starts at      *)
(* offset 0, every later call starts at the byte after the last byte the   *)
(* call before it consumed, whether that call failed or not, and the       *)
(* stream's position is where the last call stopped.  Every call is one    *)
(* parse attempt: it returns exactly one message or one error; when the    *)
(* byte at its start is not the magic byte it returns InvalidFrameStart    *)
(* of that byte and consumes that byte only (no scanning forward); and     *)
(* when a well-formed frame starts at its start it returns that frame's    *)
(* message and consumes that frame.                                        *)
(***************************************************************************)
C14_NoRetryNoResync ==
    /\ pos = (IF out = <<>> THEN 0 ELSE out[Len(out)].end)
    /\ \A i \in DOMAIN out :
         /\ out[i].start = (IF i = 1 THEN 0 ELSE out[i - 1].end)
         /\ ReturnedMessage(i) # ReturnedError(i)
         /\ (out[i].start < Len(wire) /\ wire[out[i].start + 1] # 1)
            => /\ out[i].item = Err(InvalidFrameStart(wire[out[i].start + 1]))
               /\ out[i].end = out[i].start + 1
         /\ \A k \in DOMAIN sent :
              (WellFormed(sent[k]) /\ chunk_offset(k) = out[i].start)
              => /\ out[i].item = Ok(decoded(sent[k]))
                 /\ out[i].end = chunk_offset(k + 1)

\* The first call failed on the checksum of the first frame, and the second
\* call decoded the well-formed frame that starts right after it.
C14_Witness ==
    /\ Len(out) >= 2
    /\ Len(sent) >= 2
    /\ ReturnedError(1)
    /\ out[1].item.err.kind = "InvalidChecksum"
    /\ out[2].start = chunk_offset(2)
    /\ out[2].item = Ok(decoded(sent[2]))

\* A call that failed on a byte that is not the magic byte was followed by a
\* call that failed on the very next byte.
C14_WitnessNoScan ==
    /\ Len(out) >= 2
    /\ ReturnedError(1) /\ ReturnedError(2)
    /\ out[1].item.err.kind = "InvalidFrameStart"
    /\ out[2].item.err.kind = "InvalidFrameStart"
    /\ out[2].start = 1 /\ out[2].end = 2

\* One step of a stream that is the only one running.
alone_step(c) ==
    IF c.stream.pc = "idle" THEN AsyncMessageStream_call(c.stream, c.source)
    ELSE AsyncMessageStream_poll(c.stream, c.source)

RECURSIVE alone_run(_, _)
\* n steps of a stream that is the only one running, from c
alone_run(c, n) == IF n = 0 THEN c ELSE alone_step(alone_run(c, n - 1))

\* Stream t alone on its own source, after n steps.
alone(t, n) ==
    alone_run([stream |-> AsyncMessageStream_new(t),
               source |-> [bytes |-> sources[t].bytes, pos |-> 0]], n)

(***************************************************************************)
(* C15.  Streams that each own a distinct source, interleaved at their     *)
(* awaits in any order: after any number of steps each stream has returned *)
(* the same messages and errors, is suspended at the same await with the   *)
(* same locals, and has consumed the same bytes of its own source, as      *)
(* after the same number of its steps with no other stream running.        *)
(***************************************************************************)
C15_InterleavingIsSafe ==
    \A t \in Streams :
        LET a == alone(t, streams[t].steps)
        IN  /\ streams[t].out = a.stream.out
            /\ streams[t].pc = a.stream.pc
            /\ streams[t].header = a.stream.header
            /\ streams[t].data = a.stream.data
            /\ sources[t] = a.source

\* Both streams are suspended in the middle of their second call, on
\* different sources, one of them after an error.
C15_Witness ==
    /\ streams[1].pc = "body" /\ streams[2].pc = "checksum"
    /\ Len(streams[1].out) = 1 /\ Len(streams[2].out) = 1
    /\ streams[1].out[1].item.ok
    /\ ~streams[2].out[1].item.ok
    /\ sources[1].bytes # sources[2].bytes

RECURSIVE blocking_calls(_, _, _)
\* What n calls of MessageStream::next return on source src from offset p.
blocking_calls(src, p, n) ==
    IF n = 0 THEN <<>>
    ELSE LET read == Frame_read(src, p)
             item == IF read.res.ok THEN Frame_body(read.res.val)
                     ELSE read.res
         IN  <<[start |-> p, end |-> read.pos, frame |-> read.res,
                item |-> item]>> \o blocking_calls(src, read.pos, n - 1)

(***************************************************************************)
(* C16.  On the same bytes the calls an AsyncMessageStream has completed   *)
(* returned, call by call, what MessageStream::next returns (the same      *)
(* message, or the same error with the same fields) and consumed the same  *)
(* bytes.                                                                  *)
(***************************************************************************)
C16_AsyncEqualsBlocking ==
    \A t \in Streams :
        streams[t].out =
            blocking_calls(sources[t].bytes, 0, Len(streams[t].out))

\* A stream has completed two calls: a checksum error, then a message.
C16_Witness ==
    \E t \in Streams :
        /\ Len(streams[t].out) = 2
        /\ ~streams[t].out[1].item.ok
        /\ streams[t].out[1].item.err.kind = "InvalidChecksum"
        /\ streams[t].out[2].item.ok
        /\ streams[t].out[2].end = Len(sources[t].bytes)

\* The first step, in the order magic byte, header, type code, declared
\* length, body, trailing checksum byte, checksum comparison, that fails for
\* the bytes of the wire from offset p on, with the error of that step and
\* the offset behind the last byte read up to and including that step; step
\* "none" when no step fails.  A read that finds too few bytes takes what is
\* left and fails with Eof.
first_failure(p) ==
    LET n == Len(wire)
        bs == SubSeq(wire, p + 1, p + 8)
        code == type_code(bs)
        ty == type_of(code)
        len == declared_length(bs)
        body == SubSeq(wire, p + 9, p + 8 + len)
    IN  IF p + 1 > n
        THEN [step |-> "magic", err |-> Eof, end |-> n]
        ELSE IF wire[p + 1] # 1
        THEN [step |-> "magic", err |-> InvalidFrameStart(wire[p + 1]),
              end |-> p + 1]
        ELSE IF p + 8 > n
        THEN [step |-> "header", err |-> Eof, end |-> n]
        ELSE IF code \notin KnownCodes
        THEN [step |-> "type", err |-> InvalidMessageType(code), end |-> p + 8]
        ELSE IF len > 16 \/ len # expected_length(ty)
        THEN [step |-> "length",
              err |-> InvalidDataLength(expected_length(ty), len, ty),
              end |-> p + 8]
        ELSE IF p + 8 + len > n
        THEN [step |-> "body", err |-> Eof, end |-> n]
        ELSE IF p + 9 + len > n
        THEN [step |-> "trailing", err |-> Eof, end |-> n]
        ELSE IF wire[p + 9 + len] # wire_checksum(body)
        THEN [step |-> "compare",
              err |-> InvalidChecksum("body", wire_checksum(body),
                                      wire[p + 9 + len]),
              end |-> p + 9 + len]
        ELSE [step |-> "none", end |-> p + 9 + len]

(***************************************************************************)
(* C17.  Fail-fast order.  Every call returns the error of the earliest    *)
(* failing step in the order magic byte, header type code, declared        *)
(* length, body read, trailing checksum read, checksum comparison, however *)
(* many later checks the bytes would fail as well, and it has consumed     *)
(* the bytes read up to that step and none behind them; a call for which   *)
(* no step fails returns no error from reading.                            *)
(***************************************************************************)
C17_FailFastOrder ==
    \A i \in DOMAIN out :
        LET f == first_failure(out[i].start)
        IN  /\ out[i].end = f.end
            /\ IF f.step = "none" THEN out[i].frame.ok
               ELSE out[i].item = Err(f.err)

\* A chunk with a wrong magic byte, an unknown type code and a wrong length
\* gave InvalidFrameStart after one byte.
C17_Witness ==
    /\ FirstCallDone
    /\ sent[1].magic = 2 /\ sent[1].code = 65535 /\ sent[1].length = 260
    /\ out[1].item = Err(InvalidFrameStart(2))
    /\ out[1].end = 1

\* A chunk with an unknown type code and a declared length that fits no
\* type gave InvalidMessageType after the header, with the body unread.
C17_WitnessType ==
    /\ FirstCallDone
    /\ sent[1].magic = 1 /\ sent[1].code = 2583 /\ sent[1].length = 17
    /\ out[1].item = Err(InvalidMessageType(2583))
    /\ out[1].end = 8 /\ Len(wire) > 8

\* A header declaring more bytes than the type has gave InvalidDataLength
\* although the source ends before that many bytes.
C17_WitnessLength ==
    /\ FirstCallDone
    /\ sent[1].magic = 1 /\ sent[1].code = 2581 /\ sent[1].length = 260
    /\ Len(wire) < 260
    /\ out[1].item = Err(InvalidDataLength(4, 260, "Heartbeat"))
    /\ out[1].end = 8

\* The places of the source at which reading fails.
failing_places == {q \in DOMAIN wire : wire[q] < 0}

(***************************************************************************)
(* C18.  Truncated input.  A call that starts at the first byte of a       *)
(* well-formed frame of which the source holds only a proper prefix (none  *)
(* of it, for a source that is empty or used up) returns Eof, not a        *)
(* message and not a checksum error, and has taken every byte that was     *)
(* left.  A call that starts at the first byte of a well-formed frame in   *)
(* the middle of which the source fails with e returns Read(e).            *)
(***************************************************************************)
C18_TruncatedIsEof ==
    \A i \in DOMAIN out : \A k \in DOMAIN sent :
        LET start == out[i].start
            inside == {q \in failing_places :
                         start < q /\ q <= chunk_offset(k + 1)}
        IN  (/\ start = chunk_offset(k)
             /\ \A q \in failing_places : start < q)
            => /\ inside # {}
                  => \E q \in inside : out[i].item = Err(Read(0 - wire[q]))
               /\ (inside = {} /\ Len(wire) < chunk_offset(k + 1))
                  => /\ out[i].item = Err(Eof)
                     /\ out[i].end = Len(wire)

\* A source that ends inside the body of the second frame: the first call
\* returned the first frame's message, the second Eof.
C18_Witness ==
    /\ Len(out) >= 2
    /\ Len(sent) = 2
    /\ failing_places = {}
    /\ Len(wire) = chunk_offset(2) + 10
    /\ out[1].item.ok
    /\ out[2].item = Err(Eof)
    /\ out[2].start = chunk_offset(2) /\ out[2].end = Len(wire)

\* An empty source gave Eof.
C18_WitnessEmpty == FirstCallDone /\ wire = <<>> /\ out[1].item = Err(Eof)

\* A source that fails with error 110 inside the body of a frame gave
\* Read(110).
C18_WitnessRead ==
    /\ FirstCallDone
    /\ failing_places = {11}
    /\ out[1].item = Err(Read(110))

\* The pairs of type and body length a frame can have.
AcceptedPairs ==
    {<<"Phase", 12>>, <<"Respiratory", 4>>, <<"Heartbeat", 4>>,
     <<"Distance", 8>>}

(***************************************************************************)
(* C19.  Every Frame that Frame::read returns has a pair (type, body       *)
(* length) among (Phase,12), (Respiratory,4), (Heartbeat,4), (Distance,8), *)
(* a body length that is the declared length, a multiple of 4 and at most  *)
(* the capacity 16, and Frame::body returns a message for it, never        *)
(* InvalidDataLength.                                                      *)
(***************************************************************************)
C19_AcceptedFramesDecode ==
    \A i \in DOMAIN out :
        out[i].frame.ok =>
            LET frame == out[i].frame.val
            IN  /\ <<frame.header.ty, frame.data.len>> \in AcceptedPairs
                /\ frame.data.len = frame.header.length
                /\ frame.data.len % 4 = 0
                /\ frame.data.len <= N
                /\ Len(as_ref(frame.data)) = frame.data.len
                /\ out[i].item.ok
                /\ out[i].item = Frame_body(frame)

\* Frame::read returned a Distance frame of 8 bytes and Frame::body decoded
\* it.
C19_Witness ==
    /\ FirstCallDone
    /\ out[1].frame.ok
    /\ out[1].frame.val.header.ty = "Distance"
    /\ out[1].frame.val.data.len = 8
    /\ out[1].item.ok
    /\ out[1].item.val.variant = "Distance"

\* Everything the sensor sent is a well-formed frame.
AllWellFormed == \A k \in DOMAIN sent : WellFormed(sent[k])

(***************************************************************************)
(* C20.  A call in which Frame::read succeeds has consumed 1 + 7 +         *)
(* declared length + 1 bytes.  On a source holding k well-formed frames    *)
(* back to back, call i <= k returns the message of frame i and consumes   *)
(* exactly the bytes of frame i, and every call after the k-th returns     *)
(* Eof and consumes nothing.  Every call returns Some(item), never None;   *)
(* on any source, a call made when nothing is left returns Some(Err(Eof)). *)
(***************************************************************************)
C20_FramesInOrderThenEof ==
    \A i \in DOMAIN out :
        /\ out[i].ret = Some(out[i].item)
        /\ out[i].frame.ok
           => out[i].end - out[i].start
                = 1 + 7 + out[i].frame.val.header.length + 1
        /\ out[i].start = Len(wire)
           => out[i].ret = Some(Err(Eof)) /\ out[i].end = Len(wire)
        /\ AllWellFormed
           => IF i <= Len(sent)
              THEN /\ out[i].item = Ok(decoded(sent[i]))
                   /\ out[i].start = chunk_offset(i)
                   /\ out[i].end = chunk_offset(i + 1)
              ELSE /\ out[i].item = Err(Eof)
                   /\ out[i].start = Len(wire)

\* Two well-formed frames were read in order and the third call returned
\* Some(Err(Eof)).
C20_Witness ==
    /\ Len(out) = 3
    /\ Len(sent) = 2
    /\ AllWellFormed
    /\ sent[1].code # sent[2].code
    /\ out[1].item = Ok(decoded(sent[1]))
    /\ out[2].item = Ok(decoded(sent[2]))
    /\ out[3].ret = Some(Err(Eof))

\* After the only frame, two calls in a row returned Some(Err(Eof)).
C20_WitnessStaysAtEof ==
    /\ Len(out) = 3
    /\ Len(sent) = 1
    /\ AllWellFormed
    /\ out[2].ret = Some(Err(Eof))
    /\ out[3].ret = Some(Err(Eof))

====
